---- MODULE Spec2Model ----
(***************************************************************************)
(* A model of the read-through value cache of sutil (cache/value/value.go): *)
(* Cache.Get and Cache.Del over a key/value store with TTL, the key        *)
(* normalisation (keyToString, fixKey) and the JSON conversions the cache   *)
(* applies to what it stores and reads back.                                *)
(*                                                                         *)
(* Texts that can reach the store (keys, JSON encodings, loader and        *)
(* encoder error messages) are sequences of one-character strings, so that *)
(* formatting and parsing are computed character by character.  Error      *)
(* messages that never reach the store are kept as one chunk.              *)
(*                                                                         *)
(* Two callers run concurrently (no claim relates more than two overlapping *)
(* calls); each issues calls one after the other, MaxCalls in all.          *)
(*                                                                         *)
(* A second part models the log context (extractTraceID, extractHead,       *)
(* extractContext) and the message envelope (generatePayload,               *)
(* generateMsgsPayload, parsePayload) with the envelope's JSON wire format. *)
(***************************************************************************)
EXTENDS Integers, Sequences, FiniteSets, TLC

\* ------------------------------------------------------------------ bounds

\* The number of calls (Get or Del) issued in a behaviour.
MaxCalls == 2

\* Two concurrent callers; each issues its calls one after the other.
Procs == {"a", "b"}

\* ------------------------------------------------------------------- texts

Quote == "\""
Backslash == "\\"
\* One byte that is not valid UTF-8 inside a Go string.
InvalidByte == "0xFF"
\* The rune U+FFFD that encoding/json substitutes for invalid UTF-8.
ReplacementChar == "U+FFFD"

DigitChars == <<"0", "1", "2", "3", "4", "5", "6", "7", "8", "9">>

IsDigit(c) == \E i \in 1..10 : DigitChars[i] = c

DigitValue(c) == (CHOOSE i \in 1..10 : DigitChars[i] = c) - 1

RECURSIVE Digits(_)
Digits(n) ==
    IF n < 10 THEN <<DigitChars[n + 1]>>
    ELSE Digits(n \div 10) \o <<DigitChars[(n % 10) + 1]>>

\* fmt.Sprintf("%d", n): unpadded base 10, a leading minus for negatives.
FormatInt(n) == IF n < 0 THEN <<"-">> \o Digits(-n) ELSE Digits(n)

\* --------------------------------------------------------------- errors

NoErr == [kind |-> "nil", text |-> <<>>]

\* No error value yet: the call has not returned, the step was not reached.
Pending == [kind |-> "pending", text |-> <<>>]

\* redis.RedisNil, the text of the store's not-found error.
RedisNil == <<"r", "e", "d", "i", "s", ":", " ", "n", "i", "l">>

ErrRedisNil == [kind |-> "redisnil", text |-> RedisNil]

ErrStoreAccess == [kind |-> "store", text |-> <<"store access failure">>]

ErrUnsupportedKey == [kind |-> "invalidkey", text |-> <<"key err: unsupported type">>]

ErrNoInstance(namespace) ==
    [kind |-> "noinstance", text |-> <<"get instance err, namespace: ">> \o namespace]

\* ------------------------------------------------------------------ keys

SignedKinds == {"int8", "int16", "int32", "int64", "int"}
UnsignedKinds == {"uint8", "uint16", "uint32", "uint64", "uint", "uintptr"}
IntegerKinds == SignedKinds \cup UnsignedKinds
OtherKinds == {"float64", "bool", "nil"}

\* The cases of the type switch of keyToString that format with %d.
SwitchIntKinds ==
    {"int8", "int16", "int32", "int64", "uint8", "uint16", "uint32", "uint64", "int"}

StrKey(s) == [kind |-> "string", val |-> s]
IntKey(k, n) == [kind |-> k, val |-> n]

\* keyToString, were a text key written with quotes around it.
keyToStringQuoted(key) ==
    IF key.kind = "string" THEN [s |-> <<Quote>> \o key.val \o <<Quote>>, err |-> NoErr]
    ELSE IF key.kind \in SwitchIntKinds THEN [s |-> FormatInt(key.val), err |-> NoErr]
    ELSE [s |-> <<>>, err |-> ErrUnsupportedKey]

\* keyToString, were a key of any other kind formatted like an integer.
keyToStringLenient(key) ==
    IF key.kind = "string" THEN [s |-> key.val, err |-> NoErr]
    ELSE [s |-> FormatInt(key.val), err |-> NoErr]

keyToString(key) ==
    IF key.kind = "string" THEN [s |-> key.val, err |-> NoErr]
    ELSE IF key.kind \in SwitchIntKinds THEN [s |-> FormatInt(key.val), err |-> NoErr]
    ELSE [s |-> <<>>, err |-> ErrUnsupportedKey]

\* fixKey, were the prefix joined to the key without the separator.
fixKeyNoSeparator(c, key) ==
    LET k == keyToString(key) IN
    IF k.err # NoErr THEN [s |-> <<>>, err |-> k.err]
    ELSE [s |-> c.prefix \o k.s, err |-> NoErr]

fixKey(c, key) ==
    LET k == keyToString(key) IN
    IF k.err # NoErr THEN [s |-> <<>>, err |-> k.err]
    ELSE IF Len(c.prefix) > 0 THEN [s |-> c.prefix \o <<".">> \o k.s, err |-> NoErr]
    ELSE [s |-> k.s, err |-> NoErr]

\* strings.Replace(namespace, "/", ".", -1)
ReplaceSlash(s) == [i \in 1..Len(s) |-> IF s[i] = "/" THEN "." ELSE s[i]]

NewCache(namespace, prefix, expire) ==
    [namespace |-> ReplaceSlash(namespace), prefix |-> prefix, expire |-> expire]

\* ------------------------------------------------------------------ JSON
\* Go values a loader returns and an output slot holds: text (a sequence of
\* characters or invalid bytes), a signed integer, or the float NaN.

StrVal(s) == [t |-> "string", v |-> s]
IntVal(n) == [t |-> "int", v |-> n]
NaNVal == [t |-> "float64", v |-> "NaN"]

ErrUnsupportedValue ==
    [kind |-> "marshal",
     text |-> <<"j", "s", "o", "n", ":", " ", "u", "n", "s", "u", "p", "p", "o", "r", "t",
                "e", "d", " ", "v", "a", "l", "u", "e", ":", " ", "N", "a", "N">>]

ErrSyntax == [kind |-> "syntax", text |-> <<"invalid character in JSON input">>]

ErrUnexpectedEnd == [kind |-> "syntax", text |-> <<"unexpected end of JSON input">>]

ErrUnmarshalType == [kind |-> "type", text |-> <<"json: cannot unmarshal into Go value">>]

\* The encoder's string escaping: quote and backslash are escaped, a byte that
\* is not valid UTF-8 is written as the escape of U+FFFD.
RECURSIVE EscapeString(_)
EscapeString(s) ==
    IF s = <<>> THEN <<>>
    ELSE LET c == Head(s) IN
         (IF c = Quote THEN <<Backslash, Quote>>
          ELSE IF c = Backslash THEN <<Backslash, Backslash>>
          ELSE IF c = InvalidByte THEN <<Backslash, "u", "f", "f", "f", "d">>
          ELSE <<c>>) \o EscapeString(Tail(s))

\* json.Marshal
Marshal(v) ==
    IF v.t = "string" THEN [data |-> <<Quote>> \o EscapeString(v.v) \o <<Quote>>, err |-> NoErr]
    ELSE IF v.t = "int" THEN [data |-> FormatInt(v.v), err |-> NoErr]
    ELSE [data |-> <<>>, err |-> ErrUnsupportedValue]

\* The decoder's scan of a string literal from position i (after the opening
\* quote) to the closing quote, which must end the input.
RECURSIVE ScanString(_, _, _)
ScanString(d, i, acc) ==
    IF i > Len(d) THEN [err |-> ErrUnexpectedEnd, v |-> <<>>]
    ELSE IF d[i] = Quote
        THEN IF i = Len(d) THEN [err |-> NoErr, v |-> acc] ELSE [err |-> ErrSyntax, v |-> <<>>]
    ELSE IF d[i] = Backslash
        THEN IF i + 1 <= Len(d) /\ d[i + 1] \in {Quote, Backslash}
                 THEN ScanString(d, i + 2, Append(acc, d[i + 1]))
             ELSE IF i + 5 <= Len(d) /\ SubSeq(d, i + 1, i + 5) = <<"u", "f", "f", "f", "d">>
                 THEN ScanString(d, i + 6, Append(acc, ReplacementChar))
             ELSE [err |-> ErrSyntax, v |-> <<>>]
    ELSE IF d[i] = InvalidByte THEN ScanString(d, i + 1, Append(acc, ReplacementChar))
    ELSE ScanString(d, i + 1, Append(acc, d[i]))

RECURSIVE DigitsValue(_)
DigitsValue(s) ==
    IF s = <<>> THEN 0
    ELSE 10 * DigitsValue(SubSeq(s, 1, Len(s) - 1)) + DigitValue(s[Len(s)])

\* An integer literal: digits without a leading zero (or "0" alone).
IsNatLiteral(s) ==
    /\ Len(s) > 0
    /\ \A i \in 1..Len(s) : IsDigit(s[i])
    /\ (s[1] = "0" => Len(s) = 1)

\* The decoder's parse of one top-level JSON value.
ParseJSON(d) ==
    IF d = <<>> THEN [err |-> ErrUnexpectedEnd, kind |-> "none", v |-> 0]
    ELSE IF d[1] = Quote
        THEN LET r == ScanString(d, 2, <<>>) IN
             [err |-> r.err, kind |-> IF r.err = NoErr THEN "string" ELSE "none", v |-> r.v]
    ELSE IF IsNatLiteral(d) THEN [err |-> NoErr, kind |-> "number", v |-> DigitsValue(d)]
    ELSE IF d[1] = "-" /\ IsNatLiteral(Tail(d))
        THEN [err |-> NoErr, kind |-> "number", v |-> 0 - DigitsValue(Tail(d))]
    ELSE IF d = <<"n", "u", "l", "l">> THEN [err |-> NoErr, kind |-> "null", v |-> 0]
    ELSE IF d = <<"t", "r", "u", "e">> \/ d = <<"f", "a", "l", "s", "e">>
        THEN [err |-> NoErr, kind |-> "bool", v |-> d]
    ELSE [err |-> ErrSyntax, kind |-> "none", v |-> 0]

\* json.Unmarshal(data, slot): slot is the pointed-to variable [t, v]; it is
\* left as it was on an error and on null.
Unmarshal(d, slot) ==
    LET p == ParseJSON(d) IN
    IF p.err # NoErr THEN [err |-> p.err, slot |-> slot]
    ELSE IF p.kind = "null" THEN [err |-> NoErr, slot |-> slot]
    ELSE IF p.kind = "string" /\ slot.t = "string" THEN [err |-> NoErr, slot |-> StrVal(p.v)]
    ELSE IF p.kind = "number" /\ slot.t = "int" THEN [err |-> NoErr, slot |-> IntVal(p.v)]
    ELSE [err |-> ErrUnmarshalType, slot |-> slot]

\* The zero value of a slot of type t.
ZeroSlot(t) == IF t = "string" THEN StrVal(<<>>) ELSE IntVal(0)

\* ----------------------------------------------------------------- store
\* The store client resolved by namespace: a map from canonical key to
\* [data, ttl].  An access ends "ok" or "fail" (any store failure other than
\* not-found).

StoreOutcomes == {"ok", "fail"}

NoEntry == [data |-> <<"<absent>">>, ttl |-> 0]

EntryAt(st, skey) == IF skey \in DOMAIN st THEN st[skey] ELSE NoEntry

StoreGet(st, skey, so) ==
    IF so = "fail" THEN [data |-> <<>>, err |-> ErrStoreAccess]
    ELSE IF skey \notin DOMAIN st THEN [data |-> <<>>, err |-> ErrRedisNil]
    ELSE [data |-> st[skey].data, err |-> NoErr]

StoreSet(st, skey, data, ttl, so) ==
    IF so = "fail" THEN [st |-> st, err |-> ErrStoreAccess]
    ELSE [st |-> [k \in DOMAIN st \cup {skey} |->
                     IF k = skey THEN [data |-> data, ttl |-> ttl] ELSE st[k]],
          err |-> NoErr]

StoreDel(st, skey, so) ==
    IF so = "fail" THEN [st |-> st, err |-> ErrStoreAccess]
    ELSE [st |-> [k \in DOMAIN st \ {skey} |-> st[k]], err |-> NoErr]

\* -------------------------------------------------------- cache operations

\* Lines 136-163: normalise the key, resolve the store instance, read, decode.
\* inst is the set of namespaces the instance manager resolves, so is how the
\* store access ends, slot is the caller's output variable; read says whether
\* client.Get was issued.
getValueFromCache(c, inst, st, k, slot, so) ==
    LET fk == fixKey(c, k) IN
    IF fk.err # NoErr THEN [err |-> fk.err, slot |-> slot, read |-> FALSE]
    ELSE IF c.namespace \notin inst
        THEN [err |-> ErrNoInstance(c.namespace), slot |-> slot, read |-> FALSE]
    ELSE LET g == StoreGet(st, fk.s, so) IN
         IF g.err # NoErr THEN [err |-> g.err, slot |-> slot, read |-> TRUE]
         ELSE LET u == Unmarshal(g.data, slot) IN
              [err |-> u.err, slot |-> u.slot, read |-> TRUE]

\* IsMiss, were an entry that does not decode taken for a miss too.
IsMissOrUndecodable(err) == err.text = RedisNil \/ err.kind \in {"syntax", "type"}

\* IsMiss, were every error of the first read taken for a miss.
IsMissAnyError(err) == err.kind # "nil"

\* Line 50: the first read's error is a miss when its text is redis.RedisNil.
IsMiss(err) == err.text = RedisNil

\* GetReturnsAfterFirstRead, were a found entry refreshed through the loader.
GetReturnsOnErrorOnly(err) == err # NoErr /\ ~IsMiss(err)

\* Lines 46-53: after the first read Get returns on success and on any error
\* that is not a miss.
GetReturnsAfterFirstRead(err) == err = NoErr \/ ~IsMiss(err)

\* Line 52: fmt.Errorf("%s cache key: %v err: %v", fun, key, err)
WrapGetErr(err) ==
    [kind |-> "wrapped", text |-> <<"Cache.Get --> cache key: err: ">> \o err.text]

\* LoadedData, were text stored as it is instead of its JSON encoding.
LoadedDataRaw(lo) ==
    IF lo.err # NoErr THEN [data |-> lo.err.text, err |-> lo.err]
    ELSE IF lo.value.t = "string" THEN [data |-> lo.value.v, err |-> NoErr]
    ELSE LET j == Marshal(lo.value) IN
         IF j.err # NoErr THEN [data |-> j.err.text, err |-> j.err]
         ELSE [data |-> j.data, err |-> NoErr]

\* Lines 168-180: what loadValueToCache holds in data and err once the loader
\* has returned lo = [value, err] and the value has been encoded.
LoadedData(lo) ==
    IF lo.err # NoErr THEN [data |-> lo.err.text, err |-> lo.err]
    ELSE LET j == Marshal(lo.value) IN
         IF j.err # NoErr THEN [data |-> j.err.text, err |-> j.err]
         ELSE [data |-> j.data, err |-> NoErr]

\* Line 182, "skey, err := m.fixKey(key)": skey is new in the scope and err is
\* not, so the statement assigns fixKey's error to the err that held the
\* loader's or the encoder's error.
ErrAfterFixKey(loadErr, fixErr) == fixErr

\* Lines 165-204 after the loader has returned lo.  set says whether
\* client.Set was issued, args what it was given.
loadValueToCache(c, inst, st, k, lo, so) ==
    LET m == LoadedData(lo)
        fk == fixKey(c, k)
        err == ErrAfterFixKey(m.err, fk.err)
        args == [skey |-> fk.s, data |-> m.data, ttl |-> c.expire]
    IN IF fk.err # NoErr
           THEN [st |-> st, err |-> fk.err, set |-> FALSE, args |-> args, rerr |-> Pending]
       ELSE IF c.namespace \notin inst
           THEN [st |-> st, err |-> ErrNoInstance(c.namespace), set |-> FALSE, args |-> args,
                 rerr |-> Pending]
       ELSE LET w == StoreSet(st, fk.s, m.data, c.expire, so) IN
            [st |-> w.st, err |-> IF err # NoErr THEN err ELSE w.err, set |-> TRUE,
             args |-> args, rerr |-> w.err]

\* Del, were the key deleted without the cache's prefix.
DelUnprefixed(c, inst, st, k, so) ==
    LET fk == keyToString(k) IN
    IF fk.err # NoErr
        THEN [st |-> st, err |-> fk.err, issued |-> FALSE, skey |-> fk.s, derr |-> Pending]
    ELSE IF c.namespace \notin inst
        THEN [st |-> st, err |-> ErrNoInstance(c.namespace), issued |-> FALSE, skey |-> fk.s,
              derr |-> Pending]
    ELSE LET d == StoreDel(st, fk.s, so) IN
         [st |-> d.st,
          err |-> IF d.err # NoErr
                  THEN [kind |-> "wrapped", text |-> <<"del cache key: err: ">> \o d.err.text]
                  ELSE NoErr,
          issued |-> TRUE, skey |-> fk.s, derr |-> d.err]

\* Lines 67-91.  issued says whether client.Del was issued, skey on which key,
\* derr what the store answered.
Del(c, inst, st, k, so) ==
    LET fk == fixKey(c, k) IN
    IF fk.err # NoErr
        THEN [st |-> st, err |-> fk.err, issued |-> FALSE, skey |-> fk.s, derr |-> Pending]
    ELSE IF c.namespace \notin inst
        THEN [st |-> st, err |-> ErrNoInstance(c.namespace), issued |-> FALSE, skey |-> fk.s,
              derr |-> Pending]
    ELSE LET d == StoreDel(st, fk.s, so) IN
         [st |-> d.st,
          err |-> IF d.err # NoErr
                  THEN [kind |-> "wrapped", text |-> <<"del cache key: err: ">> \o d.err.text]
                  ELSE NoErr,
          issued |-> TRUE, skey |-> fk.s, derr |-> d.err]

\* ------------------------------------------------------------------ inputs

Namespaces == {<<"o", "r", "d", "e", "r", "s", "/", "c", "a", "c", "h", "e">>}
Prefixes == {<<"o", "r", "d">>}
Expires == {5}

\* Keys the callers pass.
Keys ==
    {IntKey("int32", 42), StrKey(<<"4", "2">>), [kind |-> "float64", val |-> 0]}

SlotTypes == {"string", "int"}

NilVal == [t |-> "nil", v |-> 0]

ErrLoad(text) == [kind |-> "load", text |-> text]

\* What the caller-supplied loader may return.
LoadOutcomes ==
    {[value |-> StrVal(<<"h", "i">>), err |-> NoErr],
     [value |-> StrVal(<<InvalidByte>>), err |-> NoErr],
     [value |-> NaNVal, err |-> NoErr],
     [value |-> NilVal, err |-> ErrLoad(<<"o", "o", "p", "s">>)],
     [value |-> NilVal, err |-> ErrLoad(<<"4", "0", "4">>)]}

\* ---------------------------------------------------- contexts and tracing
\* The ambient context (context.Context): nil, or a context that carries the
\* active span and the value stored under the key "Head".

NoSpan == [impl |-> "none", traceID |-> 0, child |-> FALSE, server |-> FALSE]

\* A span of the jaeger tracer: its Context() is a jaeger.SpanContext.
JaegerSpan(t) == [impl |-> "jaeger", traceID |-> t, child |-> FALSE, server |-> FALSE]

\* A span of another tracer: its Context() is no jaeger.SpanContext.
OtherSpan == [impl |-> "other", traceID |-> 0, child |-> FALSE, server |-> FALSE]

\* Go values held in a header's key/value view.
Int64Val(n) == [t |-> "int64", v |-> n]
Float64Val(n) == [t |-> "float64", v |-> n]
NilGo == [t |-> "nil", v |-> 0]

EmptyKV == [k \in {} |-> NilGo]

\* ctx.Value("Head") of a context that holds nothing under "Head".
NoHead == [type |-> "nil", kv |-> EmptyKV, text |-> <<>>]

\* A value that implements contextHeader; toKV() returns kv.
Header(kv) == [type |-> "header", kv |-> kv, text |-> <<>>]

\* A text stored under "Head": it has no method toKV.
TextHead(s) == [type |-> "string", kv |-> EmptyKV, text |-> s]

\* A map[string]interface{}, what decoding a JSON object into an interface{}
\* gives: it has no method toKV.
MapHead(kv) == [type |-> "map", kv |-> kv, text |-> <<>>]

NilCtx == [nil |-> TRUE, span |-> NoSpan, head |-> NoHead]

Ctx(span, head) == [nil |-> FALSE, span |-> span, head |-> head]

\* context.Background()
Background == Ctx(NoSpan, NoHead)

contextKeyOpUid == "uid"
contextKeyTraceID == "traceID"

\* jaeger.TraceID{High, Low}, here with High = 0.
TraceIDVal(n) == [t |-> "TraceID", v |-> n]

emptyTrace == (contextKeyTraceID :> TraceIDVal(0))

emptyHead == (contextKeyOpUid :> Int64Val(0))

ErrorTraceIDNotFound == [kind |-> "trace", text |-> <<"traceID not found">>]

ErrorHeadKVNotFound == [kind |-> "head", text |-> <<"valid context head not found">>]

\* Lines 324-334.
extractTraceID(ctx) ==
    IF ctx.span.impl # "none" /\ ctx.span.impl = "jaeger"
    THEN [err |-> NoErr, ckv |-> (contextKeyTraceID :> TraceIDVal(ctx.span.traceID))]
    ELSE [err |-> ErrorTraceIDNotFound, ckv |-> EmptyKV]

\* kv[contextKeyOpUid]: the zero value (nil) when the map has no such key.
Lookup(kv, k) == IF k \in DOMAIN kv THEN kv[k] ELSE NilGo

\* Lines 336-346.
extractHead(ctx, full) ==
    LET head == ctx.head IN
    IF head.type = "header"
    THEN IF full THEN [err |-> NoErr, ckv |-> head.kv]
         ELSE [err |-> NoErr, ckv |-> (contextKeyOpUid :> Lookup(head.kv, contextKeyOpUid))]
    ELSE [err |-> ErrorHeadKVNotFound, ckv |-> EmptyKV]

\* extractContext, were a component that cannot be extracted left out.
extractContextOmitting(ctx, full) ==
    IF ctx.nil THEN <<>>
    ELSE LET t == extractTraceID(ctx)
             h == extractHead(ctx, full)
         IN (IF t.err = NoErr THEN <<t.ckv>> ELSE <<>>)
                \o (IF h.err = NoErr THEN <<h.ckv>> ELSE <<>>)

\* Lines 352-370.
extractContext(ctx, full) ==
    IF ctx.nil THEN <<>>
    ELSE LET t == extractTraceID(ctx)
             h == extractHead(ctx, full)
         IN (IF t.err = NoErr THEN <<t.ckv>> ELSE <<emptyTrace>>)
                \o (IF h.err = NoErr THEN <<h.ckv>> ELSE <<emptyHead>>)

\* ------------------------------------------------------------------ tracer
\* The global tracer (opentracing): Inject and Extract over a text carrier,
\* StartSpan.  A carrier maps names to texts; the tracer writes the span
\* context under one name, as the decimal text of the trace identifier.

TraceKey == "uber-trace-id"

EmptyCarrier == [k \in {} |-> <<>>]

ErrSpanContextNotFound == [kind |-> "carrier", text |-> <<"SpanContext not found">>]

ErrSpanContextCorrupted == [kind |-> "carrier", text |-> <<"SpanContext corrupted">>]

\* tracer.Inject(span.Context(), TextMap, carrier): a span context of another
\* tracer is refused and the carrier left as it was.
Inject(span, carrier) ==
    IF span.impl = "jaeger"
    THEN [k \in DOMAIN carrier \cup {TraceKey} |->
             IF k = TraceKey THEN FormatInt(span.traceID) ELSE carrier[k]]
    ELSE carrier

\* tracer.Extract(TextMap, carrier)
Extract(carrier) ==
    IF TraceKey \notin DOMAIN carrier THEN [traceID |-> 0, err |-> ErrSpanContextNotFound]
    ELSE IF IsNatLiteral(carrier[TraceKey])
        THEN [traceID |-> DigitsValue(carrier[TraceKey]), err |-> NoErr]
    ELSE [traceID |-> 0, err |-> ErrSpanContextCorrupted]

\* The trace identifier the tracer gives a new root span.
NewTraceID == 9

\* tracer.StartSpan(opName)
StartRootSpan == [impl |-> "jaeger", traceID |-> NewTraceID, child |-> FALSE, server |-> FALSE]

\* tracer.StartSpan(opName, ext.RPCServerOption(spanCtx))
StartServerSpan(traceID) ==
    [impl |-> "jaeger", traceID |-> traceID, child |-> TRUE, server |-> TRUE]

\* ---------------------------------------------------------------- payloads

NilPayload == [Carrier |-> EmptyCarrier, Value |-> <<"<nil>">>, Head |-> NoHead]

\* A nil context's method is called: the call panics.
ErrPanic == [kind |-> "panic", text |-> <<"nil pointer dereference">>]

\* Lines 21-28 and 44-51: the carrier made of the context's active span.
CarrierOf(ctx) ==
    IF ctx.span.impl # "none" THEN Inject(ctx.span, EmptyCarrier) ELSE EmptyCarrier

\* Lines 20-41.
generatePayload(ctx, value) ==
    IF ctx.nil THEN [payload |-> NilPayload, err |-> ErrPanic]
    ELSE LET carrier == CarrierOf(ctx)
             msg == Marshal(value)
         IN IF msg.err # NoErr THEN [payload |-> NilPayload, err |-> msg.err]
            ELSE [payload |-> [Carrier |-> carrier, Value |-> msg.data, Head |-> ctx.head],
                  err |-> NoErr]

Message(k, v) == [Key |-> k, Value |-> v]

\* Lines 54-68 from message i on: nmsgs is what has been appended so far.
RECURSIVE EncodeFrom(_, _, _, _, _)
EncodeFrom(msgs, i, carrier, head, nmsgs) ==
    IF i > Len(msgs) THEN [msgs |-> nmsgs, err |-> NoErr]
    ELSE LET body == Marshal(msgs[i].Value) IN
         IF body.err # NoErr THEN [msgs |-> <<>>, err |-> body.err]
         ELSE EncodeFrom(msgs, i + 1, carrier, head,
                         Append(nmsgs,
                                Message(msgs[i].Key,
                                        [Carrier |-> carrier, Value |-> body.data,
                                         Head |-> head])))

\* EncodeFrom, were a message that does not encode skipped.
RECURSIVE EncodeSkipping(_, _, _, _, _)
EncodeSkipping(msgs, i, carrier, head, nmsgs) ==
    IF i > Len(msgs) THEN [msgs |-> nmsgs, err |-> NoErr]
    ELSE LET body == Marshal(msgs[i].Value) IN
         IF body.err # NoErr THEN EncodeSkipping(msgs, i + 1, carrier, head, nmsgs)
         ELSE EncodeSkipping(msgs, i + 1, carrier, head,
                             Append(nmsgs,
                                    Message(msgs[i].Key,
                                            [Carrier |-> carrier, Value |-> body.data,
                                             Head |-> head])))

\* generateMsgsPayload, were the batch sent without the messages that fail.
generateMsgsPayloadSkipping(ctx, msgs) ==
    IF ctx.nil THEN [msgs |-> <<>>, err |-> ErrPanic]
    ELSE EncodeSkipping(msgs, 1, CarrierOf(ctx), ctx.head, <<>>)

\* Lines 43-71.
generateMsgsPayload(ctx, msgs) ==
    IF ctx.nil THEN [msgs |-> <<>>, err |-> ErrPanic]
    ELSE EncodeFrom(msgs, 1, CarrierOf(ctx), ctx.head, <<>>)

\* parsePayload, were a carrier that yields no span context an error.
parsePayloadStrict(payload, slot) ==
    LET x == Extract(payload.Carrier)
        u == Unmarshal(payload.Value, slot)
    IN IF x.err # NoErr THEN [ctx |-> NilCtx, err |-> x.err, slot |-> slot]
       ELSE IF u.err # NoErr THEN [ctx |-> NilCtx, err |-> u.err, slot |-> u.slot]
       ELSE [ctx |-> Ctx(StartServerSpan(x.traceID), payload.Head), err |-> NoErr,
             slot |-> u.slot]

\* Lines 73-92.
parsePayload(payload, slot) ==
    LET x == Extract(payload.Carrier)
        span == IF x.err = NoErr THEN StartServerSpan(x.traceID) ELSE StartRootSpan
        ctx == Ctx(span, payload.Head)
        u == Unmarshal(payload.Value, slot)
    IN IF u.err # NoErr THEN [ctx |-> NilCtx, err |-> u.err, slot |-> u.slot]
       ELSE [ctx |-> ctx, err |-> NoErr, slot |-> u.slot]

\* -------------------------------------------------------------------- wire
\* The envelope's wire format: a JSON object with the fields c (the carrier,
\* texts to texts), v (a JSON string holding the encoded value) and h (the
\* JSON of the header, null when there is none).  The receiver decodes it into
\* a Payload, whose Head is an interface{}.

JSONString(s) == <<Quote>> \o EscapeString(s) \o <<Quote>>

\* The JSON of a Go value of a header's view.
FieldJSON(v) ==
    IF v.t \in {"int64", "float64"} THEN [j |-> "number", v |-> v.v]
    ELSE IF v.t = "string" THEN [j |-> "string", v |-> JSONString(v.v)]
    ELSE [j |-> "null", v |-> 0]

\* What a JSON value decodes to in an interface{}: a number is a float64.
FieldFromJSON(f) ==
    IF f.j = "number" THEN Float64Val(f.v)
    ELSE IF f.j = "string" THEN StrVal(ScanString(f.v, 2, <<>>).v)
    ELSE NilGo

HeadJSON(head) ==
    IF head.type \in {"header", "map"}
        THEN [j |-> "object", kv |-> [k \in DOMAIN head.kv |-> FieldJSON(head.kv[k])],
              text |-> <<>>]
    ELSE IF head.type = "string"
        THEN [j |-> "string", kv |-> EmptyKV, text |-> JSONString(head.text)]
    ELSE [j |-> "null", kv |-> EmptyKV, text |-> <<>>]

HeadFromJSON(h) ==
    IF h.j = "object" THEN MapHead([k \in DOMAIN h.kv |-> FieldFromJSON(h.kv[k])])
    ELSE IF h.j = "string" THEN TextHead(ScanString(h.text, 2, <<>>).v)
    ELSE NoHead

\* json.Marshal of the Payload.
WireEncode(payload) ==
    [c |-> [k \in DOMAIN payload.Carrier |-> JSONString(payload.Carrier[k])],
     v |-> JSONString(payload.Value),
     h |-> HeadJSON(payload.Head)]

\* json.Unmarshal into a Payload.
WireDecode(w) ==
    [Carrier |-> [k \in DOMAIN w.c |-> ScanString(w.c[k], 2, <<>>).v],
     Value |-> ScanString(w.v, 2, <<>>).v,
     Head |-> HeadFromJSON(w.h)]

\* ------------------------------------------------------------------- state

VARIABLES
    cache,      \* the Cache built by NewCache
    instances,  \* the namespaces the store's instance manager resolves
    store,      \* canonical key -> [data, ttl]
    pc,         \* per caller: "idle", "load", "set", "read2", "done"
    op,         \* per caller: "none", "Get", "Del"
    key,        \* per caller: the key passed
    slot,       \* per caller: the output variable of Get
    ret,        \* per caller: the error returned (NoErr: success)
    loaded,     \* per caller: what the loader returned to this call
    err1,       \* per caller: the error of the first read of Get
    setRes,     \* per caller: [set, args, err] of the Set or Del it issued on the store
    seen,       \* per caller: the entry under its key at its last store access
    nload,      \* per caller: loader invocations
    nset,       \* per caller: Sets issued
    nread,      \* per caller: store reads issued
    intact,     \* per caller: its Set succeeded and the entry was not removed since
    prior,      \* per caller: the calls that had returned, entry intact, when it began
    wroteBefore, \* per caller: the calls that had Set the store when it began
    clobbered,  \* per caller: another call Set its key between its Set and re-read
    setOrder,   \* the callers in the order of their successful Sets
    ncalls,     \* the calls issued so far
    doneBefore, \* per caller: the calls that had returned when its call began
    atDel,      \* per caller of Del: where the calls on its key stood when it ran
    kIn,        \* key normalisation alone: the key
    kOut,       \* key normalisation alone: fixKey's result
    ctxIn,      \* messages and logging: the ambient context of the sender
    fullHead,   \* the fullHead argument of extractContext
    ctxOut,     \* what extractContext returned
    valIn,      \* the value passed to generatePayload
    sent,       \* what generatePayload returned
    delivered,  \* the Payload the receiver decoded from the wire
    slotIn,     \* the type of the receiver's output variable
    parsed,     \* what parsePayload returned
    headOut,    \* what extractHead returned on parsePayload's context
    msgsIn,     \* the messages passed to generateMsgsPayload
    msgsOut     \* what generateMsgsPayload returned

msgVars ==
    <<ctxIn, fullHead, ctxOut, valIn, sent, delivered, slotIn, parsed, headOut, msgsIn, msgsOut>>

vars ==
    <<cache, instances, store, pc, op, key, slot, ret, loaded, err1, setRes, seen, nload, nset,
      nread, intact, prior, wroteBefore, clobbered, setOrder, ncalls, doneBefore, atDel, kIn,
      kOut, msgVars>>

NoKey == [kind |-> "none", val |-> 0]
NotLoaded == [value |-> NilVal, err |-> [kind |-> "notcalled", text |-> <<>>]]
NoSet == [set |-> FALSE, args |-> [skey |-> <<>>, data |-> <<>>, ttl |-> 0], err |-> Pending]
NoResult == [s |-> <<>>, err |-> Pending]

EmptyStore == [k \in {} |-> NoEntry]

\* No call on the key of a Del stood anywhere when it ran (or no Del ran).
Away == [q \in Procs |-> "away"]

\* The canonical key of caller p's key (<<>> when the key is rejected).
SKey(p) == fixKey(cache, key[p]).s

ValidKey(p) == pc[p] # "idle" /\ fixKey(cache, key[p]).err = NoErr

\* Nothing extracted, generated, delivered or parsed yet.
NotExtracted == [run |-> FALSE, v |-> <<>>]
NotSent == [payload |-> NilPayload, err |-> Pending]
NotDelivered == NilPayload
NotParsed == [ctx |-> NilCtx, err |-> Pending, slot |-> ZeroSlot("string")]
NoHeadResult == [err |-> Pending, ckv |-> EmptyKV]
NotGenerated == [msgs |-> <<>>, err |-> Pending]

InitMsgResults ==
    /\ ctxOut = NotExtracted
    /\ sent = NotSent
    /\ delivered = NotDelivered
    /\ parsed = NotParsed
    /\ headOut = NoHeadResult
    /\ msgsOut = NotGenerated

\* No message is sent or received and nothing is logged.
InitMsgIdle ==
    /\ ctxIn = Background
    /\ fullHead = FALSE
    /\ valIn = NilVal
    /\ slotIn = "string"
    /\ msgsIn = <<>>
    /\ InitMsgResults

InitCalls ==
    /\ store = EmptyStore
    /\ pc = [p \in Procs |-> "idle"]
    /\ op = [p \in Procs |-> "none"]
    /\ key = [p \in Procs |-> NoKey]
    /\ slot = [p \in Procs |-> ZeroSlot("string")]
    /\ ret = [p \in Procs |-> Pending]
    /\ loaded = [p \in Procs |-> NotLoaded]
    /\ err1 = [p \in Procs |-> Pending]
    /\ setRes = [p \in Procs |-> NoSet]
    /\ seen = [p \in Procs |-> NoEntry]
    /\ nload = [p \in Procs |-> 0]
    /\ nset = [p \in Procs |-> 0]
    /\ nread = [p \in Procs |-> 0]
    /\ intact = [p \in Procs |-> FALSE]
    /\ prior = [p \in Procs |-> {}]
    /\ wroteBefore = [p \in Procs |-> {}]
    /\ clobbered = [p \in Procs |-> FALSE]
    /\ setOrder = <<>>
    /\ ncalls = 0
    /\ doneBefore = [p \in Procs |-> {}]
    /\ atDel = [p \in Procs |-> Away]

Init ==
    /\ \E ns \in Namespaces, pre \in Prefixes, ex \in Expires : cache = NewCache(ns, pre, ex)
    /\ instances \in {{}, {cache.namespace}}
    /\ InitCalls
    /\ kIn = NoKey
    /\ kOut = NoResult
    /\ InitMsgIdle

\* The callers whose entry a removal of skey ends.
Removed(skey) == {q \in Procs : pc[q] # "idle" /\ SKey(q) = skey}

\* Where each other caller's Get on the canonical key skey stands ("load":
\* missed, loader not yet returned; "set": loader returned, Set not yet issued;
\* "read2"; "done") as caller p's Del runs; "away" for a caller with no such call.
Standing(p, skey) ==
    [q \in Procs |->
        IF q # p /\ op[q] = "Get" /\ ValidKey(q) /\ SKey(q) = skey THEN pc[q] ELSE "away"]

\* Lines 39-53: Get is called with key k and a slot of type t; the first read.
GetFirstRead(p) ==
    /\ pc[p] = "idle"
    /\ ncalls < MaxCalls
    /\ ncalls' = ncalls + 1
    /\ \E k \in Keys, t \in SlotTypes, so \in StoreOutcomes :
         LET r == getValueFromCache(cache, instances, store, k, ZeroSlot(t), so)
             done == GetReturnsAfterFirstRead(r.err)
         IN /\ op' = [op EXCEPT ![p] = "Get"]
            /\ key' = [key EXCEPT ![p] = k]
            /\ slot' = [slot EXCEPT ![p] = r.slot]
            /\ err1' = [err1 EXCEPT ![p] = r.err]
            /\ seen' = [seen EXCEPT ![p] = EntryAt(store, fixKey(cache, k).s)]
            /\ nread' = [nread EXCEPT ![p] = IF r.read THEN @ + 1 ELSE @]
            /\ prior' = [prior EXCEPT ![p] = {q \in Procs : pc[q] = "done" /\ intact[q]}]
            /\ wroteBefore' = [wroteBefore EXCEPT ![p] = {q \in Procs : nset[q] > 0}]
            /\ doneBefore' = [doneBefore EXCEPT ![p] = {q \in Procs : pc[q] = "done"}]
            /\ pc' = [pc EXCEPT ![p] = IF done THEN "done" ELSE "load"]
            /\ ret' = [ret EXCEPT ![p] =
                          IF ~done THEN Pending
                          ELSE IF r.err = NoErr THEN NoErr
                          ELSE WrapGetErr(r.err)]
    /\ UNCHANGED <<cache, instances, store, loaded, setRes, nload, nset, intact, clobbered,
                   setOrder, atDel, kIn, kOut, msgVars>>

\* GetLoad, were a load in flight for the same key joined instead of repeated.
GetLoadCoalesced(p) ==
    /\ pc[p] = "load"
    /\ \E lo \in LoadOutcomes :
         LET others == {q \in Procs \ {p} : SKey(q) = SKey(p) /\ loaded[q] # NotLoaded} IN
         /\ loaded' = [loaded EXCEPT ![p] =
                           IF others = {} THEN lo ELSE loaded[CHOOSE q \in others : TRUE]]
         /\ nload' = [nload EXCEPT ![p] = IF others = {} THEN @ + 1 ELSE @]
         /\ pc' = [pc EXCEPT ![p] = "set"]
    /\ UNCHANGED <<cache, instances, store, op, key, slot, ret, err1, setRes, seen, nset, nread,
                   intact, prior, wroteBefore, clobbered, setOrder, ncalls, doneBefore, atDel,
                   kIn, kOut, msgVars>>

\* Line 169: the loader is called and returns.
GetLoad(p) ==
    /\ pc[p] = "load"
    /\ \E lo \in LoadOutcomes :
         /\ loaded' = [loaded EXCEPT ![p] = lo]
         /\ nload' = [nload EXCEPT ![p] = @ + 1]
         /\ pc' = [pc EXCEPT ![p] = "set"]
    /\ UNCHANGED <<cache, instances, store, op, key, slot, ret, err1, setRes, seen, nset, nread,
                   intact, prior, wroteBefore, clobbered, setOrder, ncalls, doneBefore, atDel,
                   kIn, kOut, msgVars>>

\* GetSet, were the store re-read also after a Set that failed.
GetSetRereadsAlways(p) ==
    /\ pc[p] = "set"
    /\ \E so \in StoreOutcomes :
         LET r == loadValueToCache(cache, instances, store, key[p], loaded[p], so)
             wrote == r.set /\ r.rerr = NoErr
         IN /\ store' = r.st
            /\ setRes' = [setRes EXCEPT ![p] =
                             [set |-> r.set, args |-> r.args, err |-> r.rerr]]
            /\ nset' = [nset EXCEPT ![p] = IF r.set THEN @ + 1 ELSE @]
            /\ intact' = [intact EXCEPT ![p] = wrote]
            /\ setOrder' = IF wrote THEN Append(setOrder, p) ELSE setOrder
            /\ clobbered' =
                   [q \in Procs |->
                       IF wrote /\ q # p /\ pc[q] = "read2" /\ SKey(q) = SKey(p)
                       THEN TRUE ELSE clobbered[q]]
            /\ pc' = [pc EXCEPT ![p] = "read2"]
            /\ ret' = [ret EXCEPT ![p] = Pending]
    /\ UNCHANGED <<cache, instances, op, key, slot, loaded, err1, seen, nload, nread, prior,
                   wroteBefore, ncalls, doneBefore, atDel, kIn, kOut, msgVars>>

\* Lines 170-204 and 57-61: encode, Set, and Get's return on an error.
GetSet(p) ==
    /\ pc[p] = "set"
    /\ \E so \in StoreOutcomes :
         LET r == loadValueToCache(cache, instances, store, key[p], loaded[p], so)
             wrote == r.set /\ r.rerr = NoErr
         IN /\ store' = r.st
            /\ setRes' = [setRes EXCEPT ![p] =
                             [set |-> r.set, args |-> r.args, err |-> r.rerr]]
            /\ nset' = [nset EXCEPT ![p] = IF r.set THEN @ + 1 ELSE @]
            /\ intact' = [intact EXCEPT ![p] = wrote]
            /\ setOrder' = IF wrote THEN Append(setOrder, p) ELSE setOrder
            /\ clobbered' =
                   [q \in Procs |->
                       IF wrote /\ q # p /\ pc[q] = "read2" /\ SKey(q) = SKey(p)
                       THEN TRUE ELSE clobbered[q]]
            /\ pc' = [pc EXCEPT ![p] = IF r.err # NoErr THEN "done" ELSE "read2"]
            /\ ret' = [ret EXCEPT ![p] = IF r.err # NoErr THEN r.err ELSE Pending]
    /\ UNCHANGED <<cache, instances, op, key, slot, loaded, err1, seen, nload, nread, prior,
                   wroteBefore, ncalls, doneBefore, atDel, kIn, kOut, msgVars>>

\* GetReread, were an entry found missing at the re-read written again.
GetRereadRepairing(p) ==
    /\ pc[p] = "read2"
    /\ \E so \in StoreOutcomes :
         LET r == getValueFromCache(cache, instances, store, key[p], slot[p], so)
             again == StoreSet(store, SKey(p), LoadedData(loaded[p]).data, cache.expire, "ok")
         IN /\ slot' = [slot EXCEPT ![p] = r.slot]
            /\ ret' = [ret EXCEPT ![p] = r.err]
            /\ seen' = [seen EXCEPT ![p] = EntryAt(store, SKey(p))]
            /\ nread' = [nread EXCEPT ![p] = IF r.read THEN @ + 1 ELSE @]
            /\ store' = IF IsMiss(r.err) THEN again.st ELSE store
            /\ pc' = [pc EXCEPT ![p] = "done"]
    /\ UNCHANGED <<cache, instances, op, key, loaded, err1, setRes, nload, nset,
                   intact, prior, wroteBefore, clobbered, setOrder, ncalls, doneBefore, atDel,
                   kIn, kOut, msgVars>>

\* Line 64: the re-read, whose error Get returns as it is.
GetReread(p) ==
    /\ pc[p] = "read2"
    /\ \E so \in StoreOutcomes :
         LET r == getValueFromCache(cache, instances, store, key[p], slot[p], so)
         IN /\ slot' = [slot EXCEPT ![p] = r.slot]
            /\ ret' = [ret EXCEPT ![p] = r.err]
            /\ seen' = [seen EXCEPT ![p] = EntryAt(store, SKey(p))]
            /\ nread' = [nread EXCEPT ![p] = IF r.read THEN @ + 1 ELSE @]
            /\ pc' = [pc EXCEPT ![p] = "done"]
    /\ UNCHANGED <<cache, instances, store, op, key, loaded, err1, setRes, nload, nset, intact,
                   prior, wroteBefore, clobbered, setOrder, ncalls, doneBefore, atDel, kIn,
                   kOut, msgVars>>

\* Lines 67-91: Del is called with key k.
DelCall(p) ==
    /\ pc[p] = "idle"
    /\ ncalls < MaxCalls
    /\ ncalls' = ncalls + 1
    /\ \E k \in Keys, so \in StoreOutcomes :
         LET r == Del(cache, instances, store, k, so)
             skey == fixKey(cache, k).s
         IN /\ op' = [op EXCEPT ![p] = "Del"]
            /\ key' = [key EXCEPT ![p] = k]
            /\ store' = r.st
            /\ ret' = [ret EXCEPT ![p] = r.err]
            /\ seen' = [seen EXCEPT ![p] = EntryAt(store, skey)]
            /\ setRes' = [setRes EXCEPT ![p] =
                             [set |-> r.issued,
                              args |-> [skey |-> r.skey, data |-> <<>>, ttl |-> 0],
                              err |-> r.derr]]
            /\ intact' = [q \in Procs |->
                             IF r.st # store /\ q \in Removed(skey) THEN FALSE ELSE intact[q]]
            /\ doneBefore' = [doneBefore EXCEPT ![p] = {q \in Procs : pc[q] = "done"}]
            /\ atDel' = [atDel EXCEPT ![p] = Standing(p, skey)]
            /\ pc' = [pc EXCEPT ![p] = "done"]
    /\ UNCHANGED <<cache, instances, slot, loaded, err1, nload, nset, nread, prior,
                   wroteBefore, clobbered, setOrder, kIn, kOut, msgVars>>

\* The TTL of the entry under skey elapses and the store drops it.
Expire(skey) ==
    /\ skey \in DOMAIN store
    /\ store' = [k \in DOMAIN store \ {skey} |-> store[k]]
    /\ intact' = [q \in Procs |-> IF q \in Removed(skey) THEN FALSE ELSE intact[q]]
    /\ UNCHANGED <<cache, instances, pc, op, key, slot, ret, loaded, err1, setRes, seen, nload,
                   nset, nread, prior, wroteBefore, clobbered, setOrder, ncalls, doneBefore,
                   atDel, kIn, kOut, msgVars>>

\* The caller of a call that has returned goes on to its next call; what was
\* recorded of the call that returned is dropped.
NextCall(p) ==
    /\ pc[p] = "done"
    /\ ncalls < MaxCalls
    /\ pc' = [pc EXCEPT ![p] = "idle"]
    /\ op' = [op EXCEPT ![p] = "none"]
    /\ key' = [key EXCEPT ![p] = NoKey]
    /\ slot' = [slot EXCEPT ![p] = ZeroSlot("string")]
    /\ ret' = [ret EXCEPT ![p] = Pending]
    /\ loaded' = [loaded EXCEPT ![p] = NotLoaded]
    /\ err1' = [err1 EXCEPT ![p] = Pending]
    /\ setRes' = [setRes EXCEPT ![p] = NoSet]
    /\ seen' = [seen EXCEPT ![p] = NoEntry]
    /\ nload' = [nload EXCEPT ![p] = 0]
    /\ nset' = [nset EXCEPT ![p] = 0]
    /\ nread' = [nread EXCEPT ![p] = 0]
    /\ intact' = [intact EXCEPT ![p] = FALSE]
    /\ clobbered' = [clobbered EXCEPT ![p] = FALSE]
    /\ prior' = [q \in Procs |-> IF q = p THEN {} ELSE prior[q] \ {p}]
    /\ wroteBefore' = [q \in Procs |-> IF q = p THEN {} ELSE wroteBefore[q] \ {p}]
    /\ setOrder' = SelectSeq(setOrder, LAMBDA x : x # p)
    /\ doneBefore' = [q \in Procs |-> IF q = p THEN {} ELSE doneBefore[q] \ {p}]
    /\ atDel' = [q \in Procs |-> IF q = p THEN Away ELSE [atDel[q] EXCEPT ![p] = "away"]]
    /\ UNCHANGED <<cache, instances, store, ncalls, kIn, kOut, msgVars>>

Next ==
    \/ \E p \in Procs : GetFirstRead(p)
    \/ \E p \in Procs : GetLoad(p)
    \/ \E p \in Procs : GetSet(p)
    \/ \E p \in Procs : GetReread(p)
    \/ \E p \in Procs : DelCall(p)
    \/ \E p \in Procs : NextCall(p)
    \/ \E skey \in DOMAIN store : Expire(skey)

Spec == Init /\ [][Next]_vars

\* ------------------------------------------------- key normalisation alone
\* fixKey applied to one key of each kind, under each prefix.

KeyPrefixes == {<<>>, <<"o", "r", "d">>}

KeyInputs ==
    {StrKey(t) : t \in {<<"4", "2">>, <<"a">>, <<"-", "7">>}}
        \cup {IntKey(k, n) : k \in SignedKinds, n \in {-128, -7, 0, 42}}
        \cup {IntKey(k, n) : k \in UnsignedKinds, n \in {0, 42, 255}}
        \cup {[kind |-> k, val |-> 0] : k \in OtherKinds}

InitKey ==
    /\ \E ns \in Namespaces, pre \in KeyPrefixes, ex \in Expires :
         cache = NewCache(ns, pre, ex)
    /\ instances = {cache.namespace}
    /\ InitCalls
    /\ kIn \in KeyInputs
    /\ kOut = NoResult
    /\ InitMsgIdle

Normalize ==
    /\ kOut = NoResult
    /\ kOut' = fixKey(cache, kIn)
    /\ UNCHANGED <<cache, instances, store, pc, op, key, slot, ret, loaded, err1, setRes,
                   seen, nload, nset, nread, intact, prior, wroteBefore, clobbered, setOrder,
                   ncalls, doneBefore, atDel, kIn, msgVars>>

NextKey == Normalize

SpecKey == InitKey /\ [][NextKey]_vars

\* ------------------------------------------------- messages and log context
\* extractContext on an ambient context; generatePayload, the envelope's way
\* over the wire, parsePayload and extractHead at the receiver;
\* generateMsgsPayload on a batch.

\* The headers' key/value views.
HeaderViews ==
    {(contextKeyOpUid :> Int64Val(7)) @@ ("src" :> StrVal(<<"w", "e", "b">>)),
     ("src" :> StrVal(<<"w", "e", "b">>))}

\* The ambient contexts of the sender.
CtxInputs ==
    {NilCtx}
        \cup {Ctx(sp, hd) :
                 sp \in {NoSpan, OtherSpan, JaegerSpan(7)},
                 hd \in {NoHead, TextHead(<<"h">>)} \cup {Header(kv) : kv \in HeaderViews}}

\* The values sent.
MsgValues == {StrVal(<<"h", "i">>), StrVal(<<InvalidByte>>), IntVal(42), NaNVal}

\* The batches passed to generateMsgsPayload.
Batches ==
    {<<>>,
     <<Message("k1", IntVal(42))>>,
     <<Message("k1", IntVal(42)), Message("k2", StrVal(<<"h", "i">>))>>,
     <<Message("k1", IntVal(42)), Message("k2", NaNVal)>>,
     <<Message("k1", NaNVal), Message("k2", IntVal(42))>>}

\* Carriers of envelopes that other senders produced: none, a valid one, a
\* corrupt one.
ValidCarrier == (TraceKey :> <<"7">>)
CorruptCarrier == (TraceKey :> <<"x", "7">>)
ForeignCarriers == {EmptyCarrier, ValidCarrier, CorruptCarrier}

\* Envelopes that other senders produced, as the receiver decodes them.
ForeignPayloads ==
    {[Carrier |-> c, Value |-> v, Head |-> h] :
        c \in ForeignCarriers,
        v \in {<<Quote, "h", "i", Quote>>, <<"4", "2">>, <<"{">>},
        h \in {NoHead, MapHead((contextKeyOpUid :> Float64Val(7)))}}

InitMsg ==
    /\ \E ns \in Namespaces, pre \in Prefixes, ex \in Expires : cache = NewCache(ns, pre, ex)
    /\ instances = {cache.namespace}
    /\ InitCalls
    /\ kIn = NoKey
    /\ kOut = NoResult
    /\ ctxIn \in CtxInputs
    /\ fullHead \in BOOLEAN
    /\ valIn \in MsgValues
    /\ slotIn \in SlotTypes
    /\ msgsIn \in Batches
    /\ InitMsgResults

cacheVars ==
    <<cache, instances, store, pc, op, key, slot, ret, loaded, err1, setRes, seen, nload, nset,
      nread, intact, prior, wroteBefore, clobbered, setOrder, ncalls, doneBefore, atDel, kIn,
      kOut>>

\* Lines 352-370: the log context of the ambient context is extracted.
ExtractContext ==
    /\ ~ctxOut.run
    /\ ctxOut' = [run |-> TRUE, v |-> extractContext(ctxIn, fullHead)]
    /\ UNCHANGED <<cacheVars, ctxIn, fullHead, valIn, sent, delivered, slotIn, parsed, headOut,
                   msgsIn, msgsOut>>

\* Lines 20-41: the sender builds the envelope of its value.
GeneratePayload ==
    /\ sent = NotSent
    /\ delivered = NotDelivered
    /\ sent' = generatePayload(ctxIn, valIn)
    /\ UNCHANGED <<cacheVars, ctxIn, fullHead, ctxOut, valIn, delivered, slotIn, parsed,
                   headOut, msgsIn, msgsOut>>

\* The envelope goes over the wire: encoded by the sender, decoded by the
\* receiver.
Deliver ==
    /\ sent.err = NoErr
    /\ delivered = NotDelivered
    /\ delivered' = WireDecode(WireEncode(sent.payload))
    /\ UNCHANGED <<cacheVars, ctxIn, fullHead, ctxOut, valIn, sent, slotIn, parsed, headOut,
                   msgsIn, msgsOut>>

\* An envelope of another sender arrives.
Arrive ==
    /\ sent = NotSent
    /\ delivered = NotDelivered
    /\ delivered' \in ForeignPayloads
    /\ UNCHANGED <<cacheVars, ctxIn, fullHead, ctxOut, valIn, sent, slotIn, parsed, headOut,
                   msgsIn, msgsOut>>

\* Lines 73-92: the receiver parses the envelope into its output variable.
ParsePayload ==
    /\ delivered # NotDelivered
    /\ parsed = NotParsed
    /\ parsed' = parsePayload(delivered, ZeroSlot(slotIn))
    /\ UNCHANGED <<cacheVars, ctxIn, fullHead, ctxOut, valIn, sent, delivered, slotIn, headOut,
                   msgsIn, msgsOut>>

\* Lines 336-346: the receiver extracts the header of parsePayload's context.
ExtractHeadReceived ==
    /\ parsed.err = NoErr
    /\ headOut = NoHeadResult
    /\ headOut' = extractHead(parsed.ctx, fullHead)
    /\ UNCHANGED <<cacheVars, ctxIn, fullHead, ctxOut, valIn, sent, delivered, slotIn, parsed,
                   msgsIn, msgsOut>>

\* Lines 43-71: the sender builds the envelopes of a batch.
GenerateMsgs ==
    /\ msgsOut = NotGenerated
    /\ msgsOut' = generateMsgsPayload(ctxIn, msgsIn)
    /\ UNCHANGED <<cacheVars, ctxIn, fullHead, ctxOut, valIn, sent, delivered, slotIn, parsed,
                   headOut, msgsIn>>

NextMsg ==
    \/ ExtractContext
    \/ GeneratePayload
    \/ Deliver
    \/ Arrive
    \/ ParsePayload
    \/ ExtractHeadReceived
    \/ GenerateMsgs

SpecMsg == InitMsg /\ [][NextMsg]_vars

\* ------------------------------------------------------------------ claims

GetDone(p) == op[p] = "Get" /\ pc[p] = "done"

\* The Set of caller p was issued and the store accepted it.
SetOk(p) == op[p] = "Get" /\ setRes[p].set /\ setRes[p].err = NoErr

\* The first read of p's Get found no entry.
Missed(p) == op[p] = "Get" /\ err1[p] # Pending /\ IsMiss(err1[p])

\* C1: when the first read misses and the loader fails with error E, the raw
\* text of E is written under the canonical key with the configured TTL and
\* Get returns E at once, without a second read of the store.
C1_LoaderErrorReturned ==
    \A p \in Procs :
        (GetDone(p) /\ Missed(p) /\ loaded[p].err.kind = "load" /\ SetOk(p))
            => /\ setRes[p].args =
                      [skey |-> SKey(p), data |-> loaded[p].err.text, ttl |-> cache.expire]
               /\ ret[p] = loaded[p].err
               /\ nread[p] = 1

\* C10: key normalisation accepts a key exactly when it is text or a signed
\* or unsigned integer of any width, and fails with the unsupported-key error
\* for every other kind.
C10_AcceptsTextAndIntegers ==
    kOut # NoResult
        => /\ (kOut.err = NoErr <=> kIn.kind \in IntegerKinds \cup {"string"})
           /\ (kOut.err # NoErr => kOut.err = ErrUnsupportedKey)

\* p's Get went through the loader, which failed, and stored the failure.
StoredFailure(p) ==
    op[p] = "Get" /\ Missed(p) /\ loaded[p].err.kind = "load" /\ SetOk(p)

\* q's Get began after p's call had returned, on the same canonical key, with
\* the entry p wrote neither expired nor deleted in between.
Follows(p, q) ==
    /\ p # q
    /\ op[q] = "Get"
    /\ ValidKey(q)
    /\ p \in prior[q]
    /\ SKey(p) = SKey(q)

\* C2: negative caching: after a Get that missed, whose loader failed and
\* whose store write succeeded, a second Get of the same key before the entry
\* expires or is deleted does not invoke the loader; the two calls together
\* invoke it exactly once.
C2_NegativeCaching ==
    \A p, q \in Procs :
        (StoredFailure(p) /\ Follows(p, q))
            => /\ nload[q] = 0
               /\ nload[p] + nload[q] = 1

C2_Witness ==
    \E p, q \in Procs : StoredFailure(p) /\ Follows(p, q) /\ pc[q] = "done" /\ nload[p] = 1

\* The loader of p's Get returned a value that encodes, for a slot of its type.
LoadedEncodable(p) ==
    /\ loaded[p].err = NoErr
    /\ Marshal(loaded[p].value).err = NoErr
    /\ slot[p].t = loaded[p].value.t

\* p's Get ran on a cold cache with a working store, and no Del or expiry
\* removed what it wrote before it returned.
ColdUndisturbed(p) ==
    /\ GetDone(p)
    /\ Missed(p)
    /\ SetOk(p)
    /\ ret[p].kind \notin {"store", "noinstance"}
    /\ intact[p]

RoundTripOutcome(p) ==
    /\ ret[p] = NoErr
    /\ slot[p] = loaded[p].value
    /\ seen[p] = [data |-> Marshal(loaded[p].value).data, ttl |-> cache.expire]

\* V comes back from its own JSON encoding unchanged.
SurvivesJSON(v) == Unmarshal(Marshal(v).data, ZeroSlot(v.t)).slot = v

\* C3 as stated: on a cold cache with a working store, no concurrent Del and
\* no expiry, a Get whose loader returns a JSON-encodable V returns success,
\* its slot equals V and the store holds the encoding of V with the TTL.
\* (V is read as a value JSON represents exactly, the slot as one of V's type.)
C3_RoundTripAsStated ==
    \A p \in Procs :
        (ColdUndisturbed(p) /\ LoadedEncodable(p) /\ SurvivesJSON(loaded[p].value))
            => RoundTripOutcome(p)

\* C3 amended: the same, provided also that no other Get stores the key
\* between this call's write and its re-read (and V is a value that decoding
\* its JSON encoding gives back: valid UTF-8 text, an integer).
C3_RoundTrip ==
    \A p \in Procs :
        (ColdUndisturbed(p) /\ LoadedEncodable(p) /\ ~clobbered[p]
         /\ SurvivesJSON(loaded[p].value))
            => RoundTripOutcome(p)

C3_Witness ==
    \E p \in Procs :
        /\ ColdUndisturbed(p) /\ LoadedEncodable(p) /\ ~clobbered[p]
        /\ SurvivesJSON(loaded[p].value)
        /\ slot[p] = StrVal(<<"h", "i">>)

\* p's Get loaded a value into the cache and returned success.
LoadedValue(p) == GetDone(p) /\ nload[p] = 1 /\ ret[p] = NoErr

\* C4: a Get whose first read finds an entry that decodes returns success at
\* that read, with no loader invocation and no store write; a second Get after
\* a Get that loaded a value, before the TTL elapses and with no Del in
\* between, never invokes the loader.
C4_HitPath ==
    /\ \A q \in Procs :
           (op[q] = "Get" /\ err1[q] = NoErr)
               => /\ pc[q] = "done" /\ ret[q] = NoErr
                  /\ nload[q] = 0 /\ nset[q] = 0 /\ nread[q] = 1
    /\ \A p, q \in Procs :
           (LoadedValue(p) /\ Follows(p, q)) => nload[q] = 0 /\ nset[q] = 0

C4_Witness ==
    \E p, q \in Procs :
        LoadedValue(p) /\ Follows(p, q) /\ err1[q] = NoErr /\ slot[q] = loaded[p].value

\* C5: a first read that fails with anything but not-found (a store access
\* failure, no instance for the namespace) makes Get return an error; it is
\* not a miss: no loader invocation, no store write.
C5_ReadFailureIsFatal ==
    \A p \in Procs :
        (op[p] = "Get" /\ err1[p].kind \in {"store", "noinstance"})
            => /\ pc[p] = "done"
               /\ ret[p] \notin {NoErr, Pending}
               /\ nload[p] = 0
               /\ nset[p] = 0

\* A Get whose first read met a store access failure and that returned it.
C5_Witness ==
    \E p \in Procs :
        /\ GetDone(p) /\ ValidKey(p)
        /\ err1[p] = ErrStoreAccess
        /\ ret[p] = WrapGetErr(ErrStoreAccess)

\* The same with no store instance for the cache's namespace.
C5_WitnessNoInstance ==
    \E p \in Procs : op[p] = "Get" /\ err1[p].kind = "noinstance" /\ pc[p] = "done"

\* C6: when the loader succeeds and encoding its value fails, the text of the
\* encoding error is stored under the canonical key and Get returns the
\* encoding error, without a second read of the store and without a decode.
C6_EncodeErrorReturned ==
    \A p \in Procs :
        (GetDone(p) /\ Missed(p) /\ loaded[p].err = NoErr
         /\ Marshal(loaded[p].value).err # NoErr /\ SetOk(p))
            => /\ setRes[p].args =
                      [skey |-> SKey(p), data |-> Marshal(loaded[p].value).err.text,
                       ttl |-> cache.expire]
               /\ ret[p] = Marshal(loaded[p].value).err
               /\ nread[p] = 1

\* C7: no Get returns the store's not-found error, whatever Del calls and
\* expiries interleave with it.
C7_NotFoundNeverReturned ==
    \A p \in Procs : GetDone(p) => ret[p].text # RedisNil

\* p and q both called Get on one key and both read a miss before either had
\* issued its Set.
Raced(p, q) ==
    /\ p # q
    /\ Missed(p) /\ Missed(q)
    /\ SKey(p) = SKey(q)
    /\ p \notin wroteBefore[q]
    /\ q \notin wroteBefore[p]

\* The place of p in the order of the successful Sets.
SetIndex(p) == CHOOSE i \in 1..Len(setOrder) : setOrder[i] = p

\* q's Set is the last that succeeded on its key.
LastSetter(q) ==
    /\ SetOk(q)
    /\ \A r \in Procs \ {q} :
           (SetOk(r) /\ SKey(r) = SKey(q)) => SetIndex(r) < SetIndex(q)

\* C8: no deduplication: two Gets of one key that both miss before either
\* has written both invoke the loader and both write; the entry left in the
\* store is the one written last.
C8_NoDeduplication ==
    \A p, q \in Procs :
        Raced(p, q)
            => /\ (pc[p] \in {"set", "read2", "done"} => nload[p] = 1)
               /\ (pc[p] \in {"read2", "done"} => nset[p] = 1)
               /\ (SetOk(p) /\ LastSetter(q) /\ intact[q])
                      => store[SKey(q)] =
                             [data |-> LoadedData(loaded[q]).data, ttl |-> cache.expire]

C8_Witness ==
    \E p, q \in Procs :
        /\ Raced(p, q)
        /\ pc[p] = "done" /\ pc[q] = "done"
        /\ SetOk(p) /\ LastSetter(q) /\ intact[q]
        /\ nload[p] = 1 /\ nload[q] = 1
        /\ loaded[p] # loaded[q]
        /\ store[SKey(q)].data = LoadedData(loaded[q]).data
        /\ store[SKey(q)].data # LoadedData(loaded[p]).data

\* C9: Del normalises the key and issues one delete on the canonical key; it
\* returns success when the key is absent (store unchanged) and when it is
\* present (entry removed), an error when the store's delete fails, and never
\* invokes the loader.
C9_DelContract ==
    [][\A p \in Procs :
           (pc[p] = "idle" /\ op'[p] = "Del" /\ fixKey(cache, key'[p]).err = NoErr
            /\ cache.namespace \in instances)
               => LET skey == fixKey(cache, key'[p]).s IN
                  /\ pc'[p] = "done"
                  /\ setRes'[p].set
                  /\ setRes'[p].args.skey = skey
                  /\ nload' = nload
                  /\ nset' = nset
                  /\ IF setRes'[p].err = NoErr
                     THEN /\ ret'[p] = NoErr
                          /\ store' = [k \in DOMAIN store \ {skey} |-> store[k]]
                          /\ (skey \notin DOMAIN store => store' = store)
                     ELSE /\ ret'[p] \notin {NoErr, Pending}
                          /\ store' = store]_vars

\* A Del that found the entry a Get had stored, removed it and returned success.
C9_Witness ==
    \E p, q \in Procs :
        /\ op[p] = "Del" /\ pc[p] = "done" /\ ret[p] = NoErr
        /\ seen[p] # NoEntry
        /\ SKey(p) \notin DOMAIN store
        /\ op[q] = "Get" /\ SetOk(q) /\ SKey(q) = SKey(p) /\ ~intact[q]

\* s is the unpadded base-10 text of n.
IsDecimalTextOf(s, n) ==
    IF n < 0
    THEN Len(s) > 1 /\ s[1] = "-" /\ IsNatLiteral(Tail(s)) /\ DigitsValue(Tail(s)) = 0 - n
    ELSE IsNatLiteral(s) /\ DigitsValue(s) = n

\* s is the string form of key k: its text verbatim, or its decimal text.
IsStringKeyOf(s, k) == IF k.kind = "string" THEN s = k.val ELSE IsDecimalTextOf(s, k.val)

\* s is pre, a dot and the string form of k, or that string form alone when
\* pre is empty.
IsCanonicalKeyOf(s, pre, k) ==
    IF Len(pre) > 0
    THEN /\ Len(s) > Len(pre) + 1
         /\ SubSeq(s, 1, Len(pre)) = pre
         /\ s[Len(pre) + 1] = "."
         /\ IsStringKeyOf(SubSeq(s, Len(pre) + 2, Len(s)), k)
    ELSE IsStringKeyOf(s, k)

\* C11: for every key that normalisation supports, the canonical key is the
\* prefix, a dot and the string key when the prefix is not empty and the
\* string key alone otherwise, the string key being the unpadded decimal text
\* of an integer key or the text key verbatim; two supported integer keys of
\* different kinds and equal value have the same canonical key.
C11_CanonicalKey ==
    (kOut # NoResult /\ kOut.err = NoErr)
        => /\ IsCanonicalKeyOf(kOut.s, cache.prefix, kIn)
           /\ \A k2 \in KeyInputs :
                  (kIn.kind \in IntegerKinds /\ k2.kind \in IntegerKinds
                   /\ k2.val = kIn.val /\ fixKey(cache, k2).err = NoErr)
                      => fixKey(cache, k2) = kOut

C11_Witness ==
    /\ kIn = IntKey("uint64", 42)
    /\ kOut = [s |-> <<"o", "r", "d", ".", "4", "2">>, err |-> NoErr]
    /\ fixKey(cache, IntKey("int32", 42)) = kOut

\* C12: Get and Del called with a key of an unsupported kind return an error
\* and do nothing else: no read, write or delete is issued on the store, the
\* loader is not invoked and the store is as it was.
C12_UnsupportedKeyNoEffect ==
    [][\A p \in Procs :
           (pc[p] = "idle" /\ pc'[p] # "idle" /\ key'[p].kind \in OtherKinds)
               => /\ pc'[p] = "done"
                  /\ ret'[p] \notin {NoErr, Pending}
                  /\ store' = store
                  /\ nread'[p] = 0
                  /\ nload'[p] = 0
                  /\ nset'[p] = 0
                  /\ ~setRes'[p].set]_vars

\* A Get or a Del with a float key has returned its error while the store
\* holds an entry.
C12_Witness ==
    \E p \in Procs :
        /\ op[p] \in {"Get", "Del"}
        /\ pc[p] = "done"
        /\ key[p].kind = "float64"
        /\ ret[p].text = IF op[p] = "Del" THEN ErrUnsupportedKey.text
                         ELSE WrapGetErr(ErrUnsupportedKey).text
        /\ DOMAIN store # {}

\* The trace component of the ambient context: its jaeger trace identifier,
\* or the zero trace identifier.
TraceComponent ==
    IF ctxIn.span.impl = "jaeger"
    THEN (contextKeyTraceID :> TraceIDVal(ctxIn.span.traceID))
    ELSE (contextKeyTraceID :> TraceIDVal(0))

\* The head component: the header's view (whole, or its operation id alone),
\* or the zero operation id.
HeadComponent ==
    IF ctxIn.head.type = "header"
    THEN IF fullHead THEN ctxIn.head.kv
         ELSE (contextKeyOpUid :> Lookup(ctxIn.head.kv, contextKeyOpUid))
    ELSE (contextKeyOpUid :> Int64Val(0))

\* C13 as stated: extractContext returns, for every ambient context, a nil
\* context included, exactly two elements, the trace component and the head
\* component, with the zero placeholder for a component that cannot be
\* extracted.
C13_AlwaysTwoElements ==
    ctxOut.run => ctxOut.v = <<TraceComponent, HeadComponent>>

\* C13 amended: extractContext never fails; for every ambient context that is
\* not nil it returns exactly the two elements above, and for a nil context
\* it returns an empty result.
C13_TwoElementsUnlessNil ==
    ctxOut.run
        => IF ctxIn.nil THEN ctxOut.v = <<>>
           ELSE ctxOut.v = <<TraceComponent, HeadComponent>>

\* extractContext on a context with neither a jaeger span nor a header.
C13_Witness ==
    /\ ctxOut.run
    /\ ~ctxIn.nil
    /\ ctxIn.span.impl = "other"
    /\ ctxIn.head.type = "string"
    /\ ctxOut.v = <<emptyTrace, emptyHead>>

\* The envelope the receiver parsed is the one generatePayload built, as it
\* came over the wire.
OwnEnvelope ==
    /\ sent.err = NoErr
    /\ delivered = WireDecode(WireEncode(sent.payload))
    /\ parsed # NotParsed

\* C14: envelope round trip: for a value V that JSON encodes (and represents
\* exactly) and an ambient context, generatePayload, the wire and parsePayload
\* into a slot of V's type succeed with the slot equal to V, and extractHead on
\* the context parsePayload returns gives what extractHead gives on the
\* sender's context.
C14_EnvelopeRoundTrip ==
    (OwnEnvelope /\ slotIn = valIn.t /\ SurvivesJSON(valIn))
        => /\ parsed.err = NoErr
           /\ parsed.slot = valIn
           /\ (headOut # NoHeadResult => headOut = extractHead(ctxIn, fullHead))

\* A root span: a new trace, no parent.
IsRootSpan(span) == span.impl = "jaeger" /\ ~span.child /\ ~span.server /\ span.traceID = NewTraceID

\* A server span that continues trace t.
IsServerChildOf(span, t) == span.impl = "jaeger" /\ span.child /\ span.server /\ span.traceID = t

\* C15: parsePayload fails exactly when the envelope's value does not decode
\* into the slot, and then returns no context; otherwise it returns a context
\* that carries the envelope's header and a span: a fresh root span when the
\* carrier is empty or corrupt, a server child span when the carrier is valid.
C15_TraceFallback ==
    parsed # NotParsed
        => LET dec == Unmarshal(delivered.Value, ZeroSlot(slotIn)) IN
           /\ (parsed.err # NoErr <=> dec.err # NoErr)
           /\ (parsed.err # NoErr => (parsed.err = dec.err /\ parsed.ctx = NilCtx))
           /\ (parsed.err = NoErr
                  => /\ ~parsed.ctx.nil
                     /\ parsed.ctx.head = delivered.Head
                     /\ (delivered.Carrier \in {EmptyCarrier, CorruptCarrier}
                            => IsRootSpan(parsed.ctx.span))
                     /\ (delivered.Carrier = ValidCarrier
                            => IsServerChildOf(parsed.ctx.span, 7)))

\* An envelope with a corrupt carrier was parsed into a context with a root
\* span and the envelope's header.
C15_Witness ==
    /\ parsed.err = NoErr
    /\ delivered.Carrier = CorruptCarrier
    /\ delivered.Head.type = "map"
    /\ IsRootSpan(parsed.ctx.span)
    /\ parsed.ctx.head = delivered.Head

\* Every message of the batch has a value that encodes.
AllEncode == \A i \in 1..Len(msgsIn) : Marshal(msgsIn[i].Value).err = NoErr

\* C16: generateMsgsPayload is all or nothing: when every value encodes it
\* returns one envelope per message, in order, with the message's key, every
\* envelope with the carrier and the header of the context; when one value does
\* not encode it returns the error and no envelope.
C16_AllOrNothing ==
    (msgsOut # NotGenerated /\ ~ctxIn.nil)
        => IF AllEncode
           THEN /\ msgsOut.err = NoErr
                /\ Len(msgsOut.msgs) = Len(msgsIn)
                /\ \A i \in 1..Len(msgsIn) :
                       /\ msgsOut.msgs[i].Key = msgsIn[i].Key
                       /\ msgsOut.msgs[i].Value.Value = Marshal(msgsIn[i].Value).data
                       /\ msgsOut.msgs[i].Value.Carrier = msgsOut.msgs[1].Value.Carrier
                       /\ msgsOut.msgs[i].Value.Carrier =
                              (IF ctxIn.span.impl = "jaeger"
                               THEN (TraceKey :> FormatInt(ctxIn.span.traceID))
                               ELSE EmptyCarrier)
                       /\ msgsOut.msgs[i].Value.Head = ctxIn.head
           ELSE /\ msgsOut.err = ErrUnsupportedValue
                /\ msgsOut.msgs = <<>>

\* A batch whose first value encodes and whose second does not was refused
\* whole.
C16_Witness ==
    /\ msgsOut.err = ErrUnsupportedValue
    /\ msgsOut.msgs = <<>>
    /\ Len(msgsIn) = 2
    /\ Marshal(msgsIn[1].Value).err = NoErr
    /\ ctxIn.span.impl = "jaeger"

\* C17: within one Get the steps come in the order first read, loader, store
\* write, re-read: the loader is invoked at most once and only after the first
\* read has returned not-found, the store is written at most once and only
\* after the loader has returned, and the store is re-read only after the write
\* has completed.
C17_StepsInOrder ==
    \A p \in Procs :
        op[p] = "Get"
            => /\ nload[p] <= 1 /\ nset[p] <= 1 /\ nread[p] <= 2
               /\ (nload[p] = 1 => (Missed(p) /\ nread[p] >= 1))
               /\ (nset[p] = 1 => (nload[p] = 1 /\ loaded[p] # NotLoaded))
               /\ (nread[p] = 2 => (SetOk(p) /\ nset[p] = 1 /\ pc[p] = "done"))
               /\ (pc[p] = "load" => (nread[p] = 1 /\ nload[p] = 0 /\ nset[p] = 0))
               /\ (pc[p] = "set" => (nread[p] = 1 /\ nload[p] = 1 /\ nset[p] = 0))
               /\ (pc[p] = "read2" => (nread[p] = 1 /\ nload[p] = 1 /\ SetOk(p)))

\* A Get that went through all four steps.
C17_Witness ==
    \E p \in Procs :
        GetDone(p) /\ Missed(p) /\ nload[p] = 1 /\ nset[p] = 1 /\ nread[p] = 2 /\ SetOk(p)

\* C18: a stored failure is never served as a value: the Get that stored the
\* text of a loader failure returns an error, and so does every Get that
\* follows it while the entry is in the store; none returns success.
C18_FailureNeverServed ==
    /\ \A p \in Procs :
           (GetDone(p) /\ StoredFailure(p) /\ intact[p] /\ ~clobbered[p]) => ret[p] # NoErr
    /\ \A p, q \in Procs :
           (StoredFailure(p) /\ Follows(p, q) /\ pc[q] = "done") => ret[q] # NoErr

\* The Del of caller p issued its delete and the store accepted it.
DelOk(p) == op[p] = "Del" /\ pc[p] = "done" /\ setRes[p].set /\ setRes[p].err = NoErr

\* C19 as stated: a value the loader had returned to a Get before a Del of the
\* same key ran is not written to the store after that Del has returned.
C19_DelNotOvertaken ==
    \A p, q \in Procs : (DelOk(p) /\ atDel[p][q] = "set") => ~SetOk(q)

\* No Get of the key of p's Del was between its first read and its store
\* write when the Del ran.
Quiet(p) == \A q \in Procs : atDel[p][q] \notin {"load", "set"}

\* The step puts an entry under skey or changes the one there.
Written(skey) ==
    /\ skey \in DOMAIN store'
    /\ (skey \in DOMAIN store => store'[skey] # store[skey])

\* C19 amended: a Del that succeeds leaves no entry under its key when it
\* returns; if no Get of the key was between its first read and its store
\* write while the Del ran, an entry is written under the key afterwards only
\* by the store write of a Get that began after the Del had returned.
C19_QuietDelHolds ==
    [][\A p \in Procs :
           /\ (pc[p] = "idle" /\ op'[p] = "Del" /\ setRes'[p].set /\ setRes'[p].err = NoErr)
                  => setRes'[p].args.skey \notin DOMAIN store'
           /\ (DelOk(p) /\ Quiet(p) /\ Written(SKey(p)))
                  => \E q \in Procs :
                         /\ op[q] = "Get" /\ pc[q] = "set" /\ pc'[q] \in {"read2", "done"}
                         /\ SKey(q) = SKey(p)
                         /\ p \in doneBefore[q]]_vars

\* A Del ran with no Get of its key in progress, and the entry now under the
\* key was written by a Get that began after it.
C19_Witness ==
    \E p, q \in Procs :
        /\ DelOk(p) /\ Quiet(p)
        /\ op[q] = "Get" /\ SKey(q) = SKey(p) /\ p \in doneBefore[q]
        /\ SetOk(q) /\ intact[q]
        /\ SKey(p) \in DOMAIN store

\* p's Get missed, loaded a value that encodes and stored its encoding.
StoredValue(p) ==
    /\ GetDone(p) /\ Missed(p)
    /\ loaded[p].err = NoErr /\ Marshal(loaded[p].value).err = NoErr
    /\ SetOk(p)

Int42 == IntKey("int32", 42)
Text42 == StrKey(<<"4", "2">>)

\* C20: the text key "42" and the integer key 42 address one entry: a Get
\* with the text key that follows a Get with the integer key that loaded and
\* stored a value (no expiry, no Del) finds that entry at its first read and
\* does not invoke the loader; a Del with either key leaves no entry under the
\* canonical key of the other.
C20_TextAndIntegerSameEntry ==
    /\ [](\A p, q \in Procs :
             (StoredValue(p) /\ key[p] = Int42 /\ Follows(p, q) /\ key[q] = Text42)
                 => /\ nload[q] = 0
                    /\ pc[q] = "done"
                    /\ ~IsMiss(err1[q])
                    /\ SKey(q) = SKey(p)
                    /\ (err1[q] # ErrStoreAccess => seen[q] # NoEntry))
    /\ [][\A p \in Procs :
              (pc[p] = "idle" /\ op'[p] = "Del" /\ key'[p] \in {Int42, Text42}
               /\ setRes'[p].set /\ setRes'[p].err = NoErr)
                  => /\ fixKey(cache, Int42).s \notin DOMAIN store'
                     /\ fixKey(cache, Text42).s \notin DOMAIN store']_vars

\* A Get with the text key found, at its first read, what a Get with the
\* integer key had loaded.
C20_Witness ==
    \E p, q \in Procs :
        /\ StoredValue(p) /\ key[p] = Int42
        /\ Follows(p, q) /\ key[q] = Text42
        /\ err1[q] = NoErr /\ nload[q] = 0
        /\ slot[q] = loaded[p].value

====
